---- MODULE Spec2Model ----
(***************************************************************************)
(* Model of the batch image-conversion and tagging pipeline,               *)
(* spm_api/spm_app/spm_worker/process_images.py (class ProcessImages).     *)
(*                                                                         *)
(* Strings that the code takes apart or compares piecewise (file names,    *)
(* format names, digests) are sequences of one-character strings; strings  *)
(* the code only passes around (paths, IPTC keys, tag values) are atoms.   *)
(* Python values whose type the code depends on are records with a "type"  *)
(* field.  The file system is the source tree (fixed during a behaviour),  *)
(* the set of directories that cannot be listed, and the content of the    *)
(* processed-output directory.  One step of the generator is one next()    *)
(* of the consumer: it runs the generator body up to the next yield or to  *)
(* its end.                                                                *)
(***************************************************************************)
EXTENDS Naturals, Sequences, FiniteSets, TLC

VARIABLES
    tree,        \* source directory path -> its listing (sequence of entry names)
    unlistable,  \* directories for which os.listdir raises
    processed,   \* output directory: file name -> [src, keywords]
    supplied,    \* arguments of the last constructor call
    ctor,        \* "none" | "ok" | "raised": outcome of the last constructor call
    self,        \* fields of the ProcessImages instance
    gen,         \* the generator object of generate_processed_copies
    heap,        \* the dicts the generator allocated on line 143, by reference
    held,        \* the references the consumer received from next(), in order
    yielded,     \* the values yielded in this run, each as it was when yielded
    log,         \* per next() that reached a file: the calls made and their results
    atStart,     \* content of the output directory when this run was constructed
    prev,        \* how the previous run ended
    runs,        \* constructor calls made so far
    faults       \* I/O faults met so far (unlistable directories included)

vars == <<tree, unlistable, processed, supplied, ctor, self, gen, heap, held, yielded,
          log, atStart, prev, runs, faults>>

---------------------------------------------------------------------------
(* Bounds of the model *)

MaxFiles == 3
MaxRuns == 2
MaxFaults == 1

---------------------------------------------------------------------------
(* Python values *)

PyFalse == [type |-> "bool", v |-> FALSE]
PyTrue == [type |-> "bool", v |-> TRUE]
PyNone == [type |-> "NoneType"]
PyStr(s) == [type |-> "str", v |-> s]
PyInt(n) == [type |-> "int", v |-> n]
PyList(s) == [type |-> "list", v |-> s]

\* str.lower(), character by character
LowerChar(c) ==
    CASE c = "J" -> "j" [] c = "P" -> "p" [] c = "E" -> "e" [] c = "G" -> "g"
      [] c = "T" -> "t" [] c = "I" -> "i" [] c = "F" -> "f" [] c = "N" -> "n"
      [] c = "B" -> "b" [] c = "M" -> "m"
      [] OTHER -> c

Lower(s) == [i \in 1..Len(s) |-> LowerChar(s[i])]

\* os.path.splitext on a bare file name: split at the last dot, unless only
\* dots precede it
SplitExt(p) ==
    LET dots == {i \in 1..Len(p) : p[i] = "."}
        dotIndex == IF dots = {} THEN 0 ELSE CHOOSE i \in dots : \A j \in dots : j <= i
    IN  IF dotIndex > 0 /\ \E k \in 1..(dotIndex - 1) : p[k] # "."
        THEN <<SubSeq(p, 1, dotIndex - 1), SubSeq(p, dotIndex, Len(p))>>
        ELSE <<p, <<>>>>

---------------------------------------------------------------------------
(* The class and its environment *)

ALLOWED_CONVERSION_FORMATS ==
    { <<"j","p","e","g">>, <<"j","p","g">>, <<"t","i","f","f">>, <<"t","i","f">>,
      <<"p","n","g">> }

DEFAULT_FORMAT == <<"j","p","g">>

KEYWORDS_KEY == "Iptc.Application2.Keywords"
CAPTION_KEY == "Iptc.Application2.Caption"
COPIED_TAG == "SPM: TAGS COPIED FROM ORIGINAL"

\* The directories of a deployment: two source directories and the output
\* directory, which lies inside the first one (views.py, lines 251-253).
ImagePaths == <<"/test_images", "/archive">>
ProcessedPath == "/test_images/processed"
SourceDirs == {ImagePaths[i] : i \in 1..Len(ImagePaths)}
AllDirs == SourceDirs \cup {ProcessedPath}

\* Names of the images a source directory may hold, and the name under
\* which the first source directory holds the output directory
NameATif == <<"a", ".", "t", "i", "f">>
NameAPng == <<"a", ".", "p", "n", "g">>
NameBTif == <<"b", ".", "t", "i", "f">>
NameProcessed == <<"p", "r", "o", "c", "e", "s", "s", "e", "d">>
FileNames == {NameATif, NameAPng, NameBTif}

\* os.path.isdir(os.path.join(directory, filename))
IsDir(name) == name = NameProcessed

\* IPTC datasets of a source image, in the order pyexiv2 lists its keys
Iptc(name) ==
    CASE name = NameATif -> << [iptc_key |-> KEYWORDS_KEY, tags |-> <<"DATE: 1974", "PLACE: The Moon">>] >>
      [] name = NameAPng -> << [iptc_key |-> KEYWORDS_KEY, tags |-> <<"PNG">>],
                               [iptc_key |-> CAPTION_KEY, tags |-> <<"A caption">>] >>
      [] OTHER -> << >>

\* hashlib.sha1(image_path.encode()).hexdigest(), cut to two hex digits
PathHash(path) ==
    CASE path = "/test_images" -> <<"3", "c">>
      [] path = "/archive" -> <<"9", "f">>
      [] OTHER -> <<"0", "0">>

\* Sequences without repetition of at most n file names
RECURSIVE Listings(_)
Listings(n) ==
    IF n = 0 THEN { << >> }
    ELSE LET shorter == Listings(n - 1)
         IN  shorter \cup { Append(l, e) : l \in {s \in shorter : Len(s) = n - 1},
                                           e \in FileNames }

NoRepeat(l) == \A i, j \in 1..Len(l) : i # j => l[i] # l[j]

\* The source trees of at most n images in all
Trees(n) ==
    { ("/test_images" :> (<<NameProcessed>> \o l1)) @@ ("/archive" :> l2) :
        <<l1, l2>> \in { p \in Listings(n) \X Listings(n) :
                           /\ NoRepeat(p[1]) /\ NoRepeat(p[2])
                           /\ Len(p[1]) + Len(p[2]) <= n } }

---------------------------------------------------------------------------
(* __init__ *)

EffectiveFormat(conversion_format) ==
    IF Lower(conversion_format.v) \in ALLOWED_CONVERSION_FORMATS
    THEN conversion_format.v
    ELSE DEFAULT_FORMAT

EffectiveRetag(retag) == IF retag.type = "bool" THEN retag.v ELSE FALSE

NoSelf == [ORIGINAL_IMAGE_PATHS |-> << >>, PROCESSED_IMAGE_PATH |-> "",
           CONVERSION_FORMAT |-> << >>, retag |-> FALSE]

\* The dict of lines 143-144
NoData == [conversion_data |-> [orig_path |-> "", processed_path |-> "", filename |-> << >>],
           tag_data |-> [iptc_key |-> "", tags |-> << >>]]

\* A generator: where it stands (pc, di, fi), its locals and the number of
\* next() calls it has served; processed_data is a reference into heap, 0
\* before line 143 has run
NoGen == [pc |-> "none", existing_converted |-> PyFalse, processed_data |-> 0,
          di |-> 0, fi |-> 0, error |-> FALSE, pulls |-> 0]

NoPrev == [ran |-> FALSE]

\* Every conversion attempted in this run so far succeeded
AllConverted == \A i \in 1..Len(log) : log[i].converted # PyFalse

---------------------------------------------------------------------------
(* The static methods.  Each takes the content of the output directory and *)
(* a flag saying whether the library call inside it fails, and returns its *)
(* return value, the output directory as it leaves it, and the files it    *)
(* wrote, each as <<directory, name>>.                                     *)

\* get_filenames(directory): the names of the plain files, or False
GetFilenames(directory, fs) ==
    IF directory \in unlistable THEN PyFalse ELSE PyList(DOMAIN fs)

\* convert_format that reports a failed conversion as done
ConvertFormatSilent(orig_filename, new_filename, path, save_path, conversion_format, fs, fails) ==
    [ret |-> [orig_path |-> path, processed_path |-> save_path,
              filename |-> SplitExt(new_filename)[1] \o <<".">> \o conversion_format],
     fs |-> IF fails \/ save_path # ProcessedPath THEN fs
            ELSE (SplitExt(new_filename)[1] \o <<".">> \o conversion_format
                    :> [src |-> <<path, orig_filename>>, keywords |-> << >>]) @@ fs,
     wrote |-> IF fails THEN {}
               ELSE {<<save_path, SplitExt(new_filename)[1] \o <<".">> \o conversion_format>>}]

\* convert_format: Image.open(url).save(os.path.join(save_path, outfile)).
\* The saved image carries no IPTC keywords.
ConvertFormat(orig_filename, new_filename, path, save_path, conversion_format, fs, fails) ==
    LET outfile == SplitExt(new_filename)[1] \o <<".">> \o conversion_format
    IN  IF fails
        THEN [ret |-> PyFalse, fs |-> fs, wrote |-> {}]
        ELSE [ret |-> [orig_path |-> path, processed_path |-> save_path, filename |-> outfile],
              fs |-> IF save_path = ProcessedPath
                     THEN (outfile :> [src |-> <<path, orig_filename>>, keywords |-> << >>]) @@ fs
                     ELSE fs,
              wrote |-> {<<save_path, outfile>>}]

\* read_iptc_tags that returns an empty list for an image without IPTC keys
ReadIptcTagsNoSentinel(filename, path, fails) ==
    IF fails THEN PyFalse ELSE PyList(Iptc(filename))

\* read_iptc_tags: one record per IPTC key, or one empty record, or False
ReadIptcTags(filename, path, fails) ==
    IF fails THEN PyFalse
    ELSE IF Iptc(filename) # << >> THEN PyList(Iptc(filename))
    ELSE PyList(<< [iptc_key |-> "", tags |-> << >>] >>)

\* os.path.join(path, filename) names a file pyexiv2 can open
Exists(path, filename, fs) ==
    IF path = ProcessedPath THEN filename \in DOMAIN fs
    ELSE /\ path \in SourceDirs
         /\ \E i \in DOMAIN tree[path] : tree[path][i] = filename /\ ~IsDir(filename)

\* write_iptc_tags that adds the tags to the keywords the file holds
WriteIptcTagsAppend(path, filename, tag_data, fs, fails) ==
    IF tag_data.iptc_key = KEYWORDS_KEY
    THEN IF fails \/ ~Exists(path, filename, fs)
         THEN [ret |-> FALSE, fs |-> fs, wrote |-> {}]
         ELSE [ret |-> TRUE,
               fs |-> IF path = ProcessedPath
                      THEN [fs EXCEPT ![filename].keywords = @ \o tag_data.tags]
                      ELSE fs,
               wrote |-> {<<path, filename>>}]
    ELSE [ret |-> FALSE, fs |-> fs, wrote |-> {}]

\* write_iptc_tags: sets the keywords of the existing file
\* os.path.join(path, filename); any other key is not written
WriteIptcTags(path, filename, tag_data, fs, fails) ==
    IF tag_data.iptc_key = KEYWORDS_KEY
    THEN IF fails \/ ~Exists(path, filename, fs)
         THEN [ret |-> FALSE, fs |-> fs, wrote |-> {}]
         ELSE [ret |-> TRUE,
               fs |-> IF path = ProcessedPath
                      THEN [fs EXCEPT ![filename].keywords = tag_data.tags]
                      ELSE fs,
               wrote |-> {<<path, filename>>}]
    ELSE [ret |-> FALSE, fs |-> fs, wrote |-> {}]

---------------------------------------------------------------------------
(* generate_processed_copies *)

\* new_filename without the hash of the directory
NewFilenameNoHash(path, filename, conversion_format) ==
    SplitExt(filename)[1] \o <<".">> \o conversion_format

\* new_filename of line 153
NewFilename(path, filename, conversion_format) ==
    PathHash(path) \o <<"_">> \o SplitExt(filename)[1] \o <<".">> \o conversion_format

\* converted_did_exist that never finds the file
ConvertedDidExistNever(new_filename, existing_converted) == FALSE

\* converted_did_exist of line 155
ConvertedDidExist(new_filename, existing_converted) ==
    new_filename \in existing_converted.v

\* the condition of line 178 without the retag flag
ShouldTagNewOnly(retag, converted_did_exist) == ~converted_did_exist

\* the condition of line 178
ShouldTag(retag, converted_did_exist) == retag \/ ~converted_did_exist

\* lines 185-186 without the append
CopiedUnmarked(tag) == tag

\* lines 185-186: the tag that marks the keywords as copied
Copied(tag) == [tag EXCEPT !.tags = Append(@, COPIED_TAG)]

\* a tagging that writes the keywords into the source image
TagTargetSource(image_path, filename, new_filename) == <<image_path, filename>>

\* lines 189-190: the file write_iptc_tags is pointed at
TagTarget(image_path, filename, new_filename) == <<self.PROCESSED_IMAGE_PATH, new_filename>>

\* "for tag in tag_data" (lines 183-195) from record i on.  acc holds the
\* tag_data entry of processed_data, the output directory, the writes made
\* and the files written.
RECURSIVE TagLoop(_, _, _, _, _)
TagLoop(records, i, target, acc, writeFails) ==
    IF i > Len(records) THEN acc
    ELSE LET tag == records[i]
         IN  IF tag.tags # << >>
             THEN LET copied == Copied(tag)
                      w == WriteIptcTags(target[1], target[2], copied, acc.fs, writeFails)
                  IN  TagLoop(records, i + 1, target,
                              [tag_data |-> copied, fs |-> w.fs,
                               writes |-> Append(acc.writes, [tag_data |-> copied, ret |-> w.ret]),
                               wrote |-> acc.wrote \cup w.wrote],
                              writeFails)
             ELSE TagLoop(records, i + 1, target,
                          [acc EXCEPT !.tag_data = tag], writeFails)

\* The body of the inner loop for one file (lines 153-195): what it leaves
\* in processed_data and in the output directory, and the calls it made.
ProcessFile(path, filename, existing_converted, processed_data, fs, convertFails, readFails, writeFails) ==
    LET new_filename == NewFilename(path, filename, self.CONVERSION_FORMAT)
        converted_did_exist == ConvertedDidExist(new_filename, existing_converted)
        conv == IF ~converted_did_exist
                THEN ConvertFormat(filename, new_filename, path, self.PROCESSED_IMAGE_PATH,
                                   self.CONVERSION_FORMAT, fs, convertFails)
                ELSE [ret |-> [orig_path |-> path, processed_path |-> self.PROCESSED_IMAGE_PATH,
                               filename |-> new_filename],
                      fs |-> fs, wrote |-> {}]
        tagging == ShouldTag(self.retag, converted_did_exist)
        tag_data == IF tagging THEN ReadIptcTags(filename, path, readFails) ELSE PyFalse
        start == [tag_data |-> processed_data.tag_data, fs |-> conv.fs, writes |-> << >>,
                  wrote |-> conv.wrote]
        tagged == IF tagging /\ tag_data.type = "list"
                  THEN TagLoop(tag_data.v, 1, TagTarget(path, filename, new_filename),
                               start, writeFails)
                  ELSE start
    IN  [processed_data |-> [conversion_data |-> conv.ret, tag_data |-> tagged.tag_data],
         fs |-> tagged.fs,
         facts |-> [path |-> path, filename |-> filename,
                    new_filename |-> new_filename,
                    converted_did_exist |-> converted_did_exist,
                    convert_called |-> ~converted_did_exist,
                    convert_failed |-> convertFails,
                    converted |-> conv.ret,
                    read_called |-> tagging,
                    tag_data |-> tag_data,
                    writes |-> tagged.writes,
                    wrote |-> tagged.wrote]]

\* The two loops (lines 145-148) from position (di, fi): the next plain file,
\* the end of the directories, or the exception of os.listdir
RECURSIVE NextFile(_, _)
NextFile(di, fi) ==
    IF di > Len(self.ORIGINAL_IMAGE_PATHS) THEN [kind |-> "end", di |-> di, fi |-> fi]
    ELSE LET image_path == self.ORIGINAL_IMAGE_PATHS[di]
         IN  IF image_path \in unlistable THEN [kind |-> "raise", di |-> di, fi |-> fi]
             ELSE IF fi + 1 > Len(tree[image_path]) THEN NextFile(di + 1, 0)
             ELSE IF IsDir(tree[image_path][fi + 1]) THEN NextFile(di, fi + 1)
             ELSE [kind |-> "file", di |-> di, fi |-> fi + 1]

\* A constructor whose generate_processed_copies converts a first file when it
\* is called, before any next()
ConstructEager(conversion_format, retag) ==
    /\ runs < MaxRuns
    /\ gen.pc \in {"none", "start", "done"}
    /\ runs' = runs + 1
    /\ supplied' = [conversion_format |-> conversion_format, retag |-> retag]
    /\ prev' = IF ctor = "ok"
               THEN [ran |-> TRUE, exhausted |-> gen.pc = "done",
                     allConverted |-> AllConverted,
                     CONVERSION_FORMAT |-> self.CONVERSION_FORMAT]
               ELSE NoPrev
    /\ atStart' = processed
    /\ heap' = << >>
    /\ held' = << >>
    /\ yielded' = << >>
    /\ log' = << >>
    /\ IF conversion_format.type = "str"
       THEN /\ ctor' = "ok"
            /\ self' = [ORIGINAL_IMAGE_PATHS |-> ImagePaths,
                        PROCESSED_IMAGE_PATH |-> ProcessedPath,
                        CONVERSION_FORMAT |-> EffectiveFormat(conversion_format),
                        retag |-> EffectiveRetag(retag)]
            /\ gen' = [NoGen EXCEPT !.pc = "start"]
       ELSE \* conversion_format.lower() raises AttributeError
            /\ ctor' = "raised"
            /\ self' = NoSelf
            /\ gen' = NoGen
    /\ processed' =
          LET files == UNION { { <<d, tree[d][i]>> : i \in DOMAIN tree[d] } : d \in SourceDirs }
              plain == { f \in files : ~IsDir(f[2]) }
          IN  IF plain = {} \/ conversion_format.type # "str" THEN processed
              ELSE LET f == CHOOSE c \in plain : TRUE
                       fmt == EffectiveFormat(conversion_format)
                   IN  ConvertFormat(f[2], NewFilename(f[1], f[2], fmt), f[1],
                                     ProcessedPath, fmt, processed, FALSE).fs
    /\ UNCHANGED <<tree, unlistable, faults>>

\* ProcessImages(image_paths, processed_image_path, conversion_format, retag)
\* followed by generate_processed_copies(), which only creates the generator.
\* Runs follow one another: the generator of the earlier instance was pulled
\* to its end, or never pulled at all (as on lines 203-206).
Construct(conversion_format, retag) ==
    /\ runs < MaxRuns
    /\ gen.pc \in {"none", "start", "done"}
    /\ runs' = runs + 1
    /\ supplied' = [conversion_format |-> conversion_format, retag |-> retag]
    /\ prev' = IF ctor = "ok"
               THEN [ran |-> TRUE, exhausted |-> gen.pc = "done",
                     allConverted |-> AllConverted,
                     CONVERSION_FORMAT |-> self.CONVERSION_FORMAT]
               ELSE NoPrev
    /\ atStart' = processed
    /\ heap' = << >>
    /\ held' = << >>
    /\ yielded' = << >>
    /\ log' = << >>
    /\ IF conversion_format.type = "str"
       THEN /\ ctor' = "ok"
            /\ self' = [ORIGINAL_IMAGE_PATHS |-> ImagePaths,
                        PROCESSED_IMAGE_PATH |-> ProcessedPath,
                        CONVERSION_FORMAT |-> EffectiveFormat(conversion_format),
                        retag |-> EffectiveRetag(retag)]
            /\ gen' = [NoGen EXCEPT !.pc = "start"]
       ELSE \* conversion_format.lower() raises AttributeError
            /\ ctor' = "raised"
            /\ self' = NoSelf
            /\ gen' = NoGen
    /\ UNCHANGED <<tree, unlistable, processed, faults>>

Count(b) == IF b THEN 1 ELSE 0

\* an existing_converted that is listed again for every file
SnapshotLive(starting) == GetFilenames(self.PROCESSED_IMAGE_PATH, processed)

\* existing_converted: listed on line 142 when the generator starts, and the
\* same local from then on
Snapshot(starting) ==
    IF starting THEN GetFilenames(self.PROCESSED_IMAGE_PATH, processed)
    ELSE gen.existing_converted

\* line 196: the generator stops at the yield, handing out its one dict
Yield(g, heap0, r, n) ==
    /\ faults' = faults + n
    /\ processed' = r.fs
    /\ gen' = [g EXCEPT !.pc = "suspended"]
    /\ heap' = [heap0 EXCEPT ![g.processed_data] = r.processed_data]
    /\ held' = Append(held, g.processed_data)
    /\ yielded' = Append(yielded, r.processed_data)
    /\ log' = Append(log, r.facts)

\* A library call can only fail where it is made
FaultsApply(r, convertFails, readFails, writeFails) ==
    /\ convertFails => r.facts.convert_called
    /\ readFails => r.facts.read_called
    /\ writeFails => \E i \in 1..Len(r.facts.writes) :
                        r.facts.writes[i].tag_data.iptc_key = KEYWORDS_KEY

\* next(generator): run the body to the next yield, or to its end
Pull ==
    /\ ctor = "ok"
    /\ gen.pc \in {"start", "suspended"}
    /\ LET starting == gen.pc = "start"
           existing_converted == Snapshot(starting)
           heap0 == IF starting THEN <<NoData>> ELSE heap
           nf == NextFile(IF starting THEN 1 ELSE gen.di, gen.fi)
           g == [gen EXCEPT !.existing_converted = existing_converted,
                            !.processed_data = 1, !.di = nf.di, !.fi = nf.fi,
                            !.pulls = @ + 1]
       IN  IF nf.kind = "file" /\ existing_converted.type = "list"
           THEN \E convertFails, readFails, writeFails \in BOOLEAN :
                  LET path == self.ORIGINAL_IMAGE_PATHS[nf.di]
                      n == Count(convertFails) + Count(readFails) + Count(writeFails)
                  IN  /\ faults + n <= MaxFaults
                      /\ \E r \in { ProcessFile(path, tree[path][nf.fi], existing_converted,
                                                heap0[1], processed,
                                                convertFails, readFails, writeFails) } :
                            /\ FaultsApply(r, convertFails, readFails, writeFails)
                            /\ Yield(g, heap0, r, n)
           ELSE \* the loops ended, or an exception (os.listdir on line 147, "in" on
                \* line 155 with get_filenames' False) reached the except of line 197
                /\ gen' = [g EXCEPT !.pc = "done", !.error = (nf.kind # "end")]
                /\ heap' = heap0
                /\ UNCHANGED <<processed, held, yielded, log, faults>>
    /\ UNCHANGED <<tree, unlistable, supplied, ctor, self, atStart, prev, runs>>

---------------------------------------------------------------------------
(* Specifications *)

InitWith(trees, unlistables) ==
    /\ tree \in trees
    /\ unlistable \in unlistables
    /\ processed = << >>
    /\ supplied = [conversion_format |-> PyNone, retag |-> PyNone]
    /\ ctor = "none"
    /\ self = NoSelf
    /\ gen = NoGen
    /\ heap = << >>
    /\ held = << >>
    /\ yielded = << >>
    /\ log = << >>
    /\ atStart = << >>
    /\ prev = NoPrev
    /\ runs = 0
    /\ faults = Cardinality(unlistable)

\* Any source tree, any directory unlistable
Init == InitWith(Trees(MaxFiles), {u \in SUBSET AllDirs : Cardinality(u) <= MaxFaults})

\* views.py passes a fixed format and a validated boolean
ConfiguredFormat == PyStr(<<"j", "p", "e", "g">>)

Run == \E retag \in BOOLEAN : Construct(ConfiguredFormat, [type |-> "bool", v |-> retag])

Next == Run \/ Pull

Spec == Init /\ [][Next]_vars

\* One source image, any constructor arguments
FormatInputs ==
    { PyNone, PyInt(1), PyStr(<< >>),
      PyStr(<<"j","p","g">>), PyStr(<<"J","P","G">>), PyStr(<<"j","p","e","g">>),
      PyStr(<<"t","i","f","f">>), PyStr(<<"T","i","f">>), PyStr(<<"p","n","g">>),
      PyStr(<<"b","m","p">>) }

RetagInputs == { PyTrue, PyFalse, PyNone, PyInt(1) }

InitFormats ==
    InitWith({ ("/test_images" :> <<NameProcessed, NameATif>>) @@ ("/archive" :> << >>) }, { {} })

RunAny == \E f \in FormatInputs, r \in RetagInputs : Construct(f, r)

NextFormats == RunAny \/ Pull

SpecFormats == InitFormats /\ [][NextFormats]_vars

---------------------------------------------------------------------------
(* Properties *)

\* The plain files of a source directory, as <<path, filename>>, in listing order
RECURSIVE PlainFiles(_, _)
PlainFiles(path, i) ==
    IF i > Len(tree[path]) THEN << >>
    ELSE (IF IsDir(tree[path][i]) THEN << >> ELSE << <<path, tree[path][i]>> >>)
         \o PlainFiles(path, i + 1)

\* The plain files of the directories from the di-th on, those in skip left out
RECURSIVE FilesFrom(_, _)
FilesFrom(di, skip) ==
    IF di > Len(ImagePaths) THEN << >>
    ELSE (IF ImagePaths[di] \in skip THEN << >> ELSE PlainFiles(ImagePaths[di], 1))
         \o FilesFrom(di + 1, skip)

AllFiles == FilesFrom(1, {})
ListableFiles == FilesFrom(1, unlistable)

\* The keyword-tags field of a source image
SourceKeywords(filename) ==
    LET ks == {i \in 1..Len(Iptc(filename)) : Iptc(filename)[i].iptc_key = KEYWORDS_KEY}
    IN  IF ks = {} THEN << >> ELSE Iptc(filename)[CHOOSE i \in ks : TRUE].tags

\* The records of a read that carry tags, each as the loop passes it on
RECURSIVE NonEmptyCopied(_, _)
NonEmptyCopied(records, i) ==
    IF i > Len(records) THEN << >>
    ELSE (IF records[i].tags # << >>
          THEN << [records[i] EXCEPT !.tags = Append(@, COPIED_TAG)] >> ELSE << >>)
         \o NonEmptyCopied(records, i + 1)

WrittenTags(writes) == [i \in 1..Len(writes) |-> writes[i].tag_data]

NewlyConverted(f) == f.convert_called /\ f.converted # PyFalse

KeywordsWritten(f) ==
    \E w \in 1..Len(f.writes) : f.writes[w].tag_data.iptc_key = KEYWORDS_KEY /\ f.writes[w].ret

EmptyRecord == [iptc_key |-> "", tags |-> << >>]

\* The run at hand follows, with the same format and without retag, a run that
\* was pulled to its end and in which every conversion succeeded
AfterCleanRun ==
    /\ ctor = "ok"
    /\ prev.ran
    /\ prev.exhausted
    /\ prev.allConverted
    /\ prev.CONVERSION_FORMAT = self.CONVERSION_FORMAT
    /\ ~self.retag

\* C1: a run without retag that follows a run, with the same format, that was
\* pulled to its end and in which every conversion succeeded calls
\* convert_format for no file and write_iptc_tags for no file, and leaves the
\* output directory (files and keywords) as it found it.
C1_Idempotence ==
    AfterCleanRun =>
        /\ \A i \in 1..Len(log) : ~log[i].convert_called /\ log[i].writes = << >>
        /\ processed = atStart

C1_Witness ==
    /\ AfterCleanRun
    /\ gen.pc = "done"
    /\ Len(log) >= 2
    /\ \E n \in DOMAIN processed : processed[n].keywords # << >>

\* C2: a failed conversion does not end the run.  The i-th value yielded is
\* that of the i-th plain file of the configured directories; it carries
\* False in place of the conversion record exactly when the conversion of
\* that file failed; every file after a failed one is converted if it was
\* not there, its tags are read and each record with tags is written; and a
\* run pulled to its end yields one value per file, unless a listing (not a
\* conversion) raised.
C2_PartialFailure ==
    ctor = "ok" =>
        /\ Len(yielded) = Len(log)
        /\ Len(log) <= Len(AllFiles)
        /\ \A i \in 1..Len(log) :
              /\ <<log[i].path, log[i].filename>> = AllFiles[i]
              /\ (yielded[i].conversion_data = PyFalse) <=> log[i].convert_failed
              /\ (\E j \in 1..(i - 1) : log[j].convert_failed) =>
                    /\ log[i].convert_called <=> (log[i].new_filename \notin DOMAIN atStart)
                    /\ (log[i].convert_called /\ ~log[i].convert_failed) =>
                          /\ yielded[i].conversion_data.filename = log[i].new_filename
                          /\ log[i].new_filename \in DOMAIN processed
                    /\ log[i].convert_called => log[i].read_called
                    /\ (log[i].read_called /\ log[i].tag_data # PyFalse) =>
                          WrittenTags(log[i].writes) = NonEmptyCopied(log[i].tag_data.v, 1)
        /\ gen.error => unlistable # {}
        /\ (gen.pc = "done" /\ ~gen.error) => Len(yielded) = Len(AllFiles)

C2_Witness ==
    /\ gen.pc = "done"
    /\ Len(yielded) = 3
    /\ yielded[1].conversion_data # PyFalse
    /\ yielded[2].conversion_data = PyFalse
    /\ yielded[3].conversion_data # PyFalse
    /\ KeywordsWritten(log[3])

\* C3: a run pulled to its end has yielded one value for every plain file of
\* every source directory that can be listed, whichever directories (source
\* or output) cannot.
C3_EnumerationRecovered ==
    (ctor = "ok" /\ gen.pc = "done") => Len(yielded) = Len(ListableFiles)

\* C4: when read_iptc_tags returns False for a file, the value yielded for
\* that file carries no tag values.
C4_ReadFailureEmptyMetadata ==
    \A i \in 1..Len(log) :
        (log[i].read_called /\ log[i].tag_data = PyFalse) => yielded[i].tag_data.tags = << >>

\* C5: two files of one name in two source directories get two converted
\* file names, and when both conversions succeed both converted files are in
\* the output directory, each written from its own directory.
C5_NameUniqueness ==
    \A i, j \in 1..Len(log) :
        (log[i].filename = log[j].filename /\ log[i].path # log[j].path) =>
            /\ log[i].new_filename # log[j].new_filename
            /\ (NewlyConverted(log[i]) /\ NewlyConverted(log[j])) =>
                  /\ log[i].converted.filename # log[j].converted.filename
                  /\ log[i].converted.filename \in DOMAIN processed
                  /\ processed[log[i].converted.filename].src[1] = log[i].path

C5_Witness ==
    \E i, j \in 1..Len(log) :
        /\ log[i].filename = log[j].filename
        /\ log[i].path # log[j].path
        /\ NewlyConverted(log[i])
        /\ NewlyConverted(log[j])

\* C6: with retag set, for a file whose converted name was in the output
\* directory when the run started, convert_format is not called,
\* read_iptc_tags is called, and write_iptc_tags is called once for each
\* record read that carries tags.
C6_Retag ==
    (ctor = "ok" /\ self.retag) =>
        \A i \in 1..Len(log) :
            log[i].new_filename \in DOMAIN atStart =>
                /\ ~log[i].convert_called
                /\ log[i].read_called
                /\ log[i].tag_data # PyFalse =>
                      WrittenTags(log[i].writes) = NonEmptyCopied(log[i].tag_data.v, 1)

C6_Witness ==
    /\ ctor = "ok"
    /\ self.retag
    /\ \E i \in 1..Len(log) :
          /\ log[i].new_filename \in DOMAIN atStart
          /\ KeywordsWritten(log[i])

\* C7: the constructor returns for every conversion format supplied, the
\* format it keeps is in the allow-list, and a supplied value that is not in
\* the allow-list is replaced by jpg.
C7_FormatFallback ==
    ctor # "none" =>
        /\ ctor = "ok"
        /\ self.CONVERSION_FORMAT \in ALLOWED_CONVERSION_FORMATS
        /\ supplied.conversion_format \notin {PyStr(f) : f \in ALLOWED_CONVERSION_FORMATS}
              => self.CONVERSION_FORMAT = DEFAULT_FORMAT

\* C8: right after a source image with a non-empty keyword list K was newly
\* converted and its tags were read, write_iptc_tags was called with K
\* followed by the copied-tag, and when that write succeeded the keywords of
\* the converted file are K followed by exactly that one tag.
C8_ProvenanceMarker ==
    (ctor = "ok" /\ log # << >>) =>
        LET f == log[Len(log)]
            K == SourceKeywords(f.filename)
            expected == [iptc_key |-> KEYWORDS_KEY, tags |-> K \o <<COPIED_TAG>>]
        IN  (K # << >> /\ NewlyConverted(f) /\ f.tag_data # PyFalse) =>
                /\ \E w \in 1..Len(f.writes) : f.writes[w].tag_data = expected
                /\ KeywordsWritten(f) => processed[f.new_filename].keywords = expected.tags

C8_Witness ==
    /\ log # << >>
    /\ SourceKeywords(log[Len(log)].filename) = <<"DATE: 1974", "PLACE: The Moon">>
    /\ NewlyConverted(log[Len(log)])
    /\ KeywordsWritten(log[Len(log)])

\* C9: for a source image without IPTC keys that was not yet converted, a
\* read that does not fail returns exactly one record with an empty key and
\* no tags, the value yielded carries that record, and write_iptc_tags is not
\* called.
C9_NoMetadata ==
    \A i \in 1..Len(log) :
        (Iptc(log[i].filename) = << >> /\ log[i].convert_called /\ log[i].tag_data # PyFalse) =>
            /\ log[i].read_called
            /\ log[i].tag_data = PyList(<<EmptyRecord>>)
            /\ yielded[i].tag_data = EmptyRecord
            /\ log[i].writes = << >>

C9_Witness ==
    \E i \in 2..Len(log) :
        /\ Iptc(log[i].filename) = << >>
        /\ NewlyConverted(log[i])
        /\ log[i].tag_data # PyFalse
        /\ yielded[i - 1].tag_data # EmptyRecord

\* C10: a value the consumer received is not changed by a later next(): what
\* each reference it holds shows is what was yielded through it.
C10_ResultOwnership ==
    \A i \in 1..Len(held) : heap[held[i]] = yielded[i]

\* The source files of the run for which convert_format or write_iptc_tags
\* has been invoked
Touched == {i \in 1..Len(log) : log[i].convert_called \/ log[i].writes # << >>}

\* The names in the output directory that are new, or hold other content,
\* since the run was created
ChangedOutputs ==
    {n \in DOMAIN processed : n \notin DOMAIN atStart \/ processed[n] # atStart[n]}

\* C11: in every state of a run the number of source files for which
\* convert_format or write_iptc_tags has been invoked is at most the number of
\* elements the consumer has requested; the i-th request works on the i-th
\* source file only, so after k requests no file beyond the k-th is converted
\* or tagged, and the output directory holds no change that is not the work
\* of one of those requests.
C11_LazyPull ==
    ctor = "ok" =>
        /\ Cardinality(Touched) <= gen.pulls
        /\ Len(log) <= gen.pulls
        /\ Len(log) <= Len(AllFiles)
        /\ \A i \in 1..Len(log) : <<log[i].path, log[i].filename>> = AllFiles[i]
        /\ \A n \in ChangedOutputs :
              \E i \in Touched : i <= gen.pulls /\ log[i].new_filename = n

C11_Witness ==
    /\ ctor = "ok"
    /\ gen.pc = "suspended"
    /\ gen.pulls = 1
    /\ Len(AllFiles) >= 2
    /\ Touched = {1}
    /\ Cardinality(ChangedOutputs) = 1

\* A file name that names no path below the directory it is joined to
Flat(name) == \A k \in 1..Len(name) : name[k] # "/"

\* The files written by the calls of the run so far, each as <<directory, name>>
Written == UNION {log[i].wrote : i \in 1..Len(log)}

\* The plain files of the source directories, each as <<directory, name>>
SourceFiles ==
    UNION { { <<d, tree[d][i]>> : i \in {k \in DOMAIN tree[d] : ~IsDir(tree[d][k])} } :
            d \in SourceDirs }

\* C12: across a run, whatever the retag value and whichever calls fail, every
\* file written is a file directly inside the output directory and no source
\* file; the output directory loses no file and holds no name that lies in
\* a subdirectory; and each of its files that changed was written by the run
\* and, if it was there before the run, differs in its keywords only.
C12_SourceFrame ==
    ctor = "ok" =>
        /\ \A t \in Written :
              /\ t[1] = ProcessedPath
              /\ Flat(t[2])
              /\ t[2] \in DOMAIN processed
              /\ t \notin SourceFiles
        /\ \A n \in DOMAIN processed : Flat(n)
        /\ DOMAIN atStart \subseteq DOMAIN processed
        /\ \A n \in ChangedOutputs :
              /\ <<ProcessedPath, n>> \in Written
              /\ n \in DOMAIN atStart =>
                    processed[n] = [atStart[n] EXCEPT !.keywords = processed[n].keywords]

C12_Witness ==
    /\ ctor = "ok"
    /\ self.retag
    /\ faults > 0
    /\ \E i, j \in 1..Len(log) :
          /\ log[i].converted_did_exist
          /\ KeywordsWritten(log[i])
          /\ log[i].new_filename \in ChangedOutputs
          /\ NewlyConverted(log[j])

\* The listing of the output directory as it was when the run was created
ListingAtStart ==
    IF ProcessedPath \in unlistable THEN PyFalse ELSE PyList(DOMAIN atStart)

\* C13: the listing of the output directory that a run decides by is the one
\* taken before its first file, whatever the run has written since; a file
\* is converted exactly if its converted name is not in that listing, so a
\* name the run wrote earlier is not seen as converted by a later file.
C13_Snapshot ==
    ctor = "ok" =>
        /\ gen.pc \in {"suspended", "done"} => gen.existing_converted = ListingAtStart
        /\ \A i \in 1..Len(log) :
              /\ log[i].converted_did_exist <=> log[i].new_filename \in DOMAIN atStart
              /\ log[i].convert_called <=> ~log[i].converted_did_exist
        /\ \A i, j \in 1..Len(log) :
              (i < j /\ log[i].new_filename = log[j].new_filename /\ NewlyConverted(log[i]))
                  => log[j].convert_called

C13_Witness ==
    /\ ctor = "ok"
    /\ \E i, j \in 1..Len(log) :
          /\ i < j
          /\ log[i].new_filename = log[j].new_filename
          /\ NewlyConverted(log[i])
          /\ log[j].new_filename \in DOMAIN processed
          /\ NewlyConverted(log[j])
          /\ PyList(DOMAIN processed) # gen.existing_converted

\* The source files whose converted name in this run is n
SourcesOf(n) ==
    {f \in SourceFiles : NewFilename(f[1], f[2], self.CONVERSION_FORMAT) = n}

\* K followed by the copied-tag, for the keyword list K of a source image
Marked(filename) == SourceKeywords(filename) \o <<COPIED_TAG>>

\* The statement of C14 as it stands, for every source file: once a run is
\* over, the converted file of each source image with keywords K whose
\* keywords the run wrote holds K followed by one copied-tag.
C14_RetagEqualsSource ==
    (ctor = "ok" /\ gen.pc = "done") =>
        \A i \in 1..Len(log) :
            (SourceKeywords(log[i].filename) # << >> /\ KeywordsWritten(log[i])) =>
                processed[log[i].new_filename].keywords = Marked(log[i].filename)

\* C14: for a source image with a non-empty keyword list K that is the only
\* source file with its converted name, in every state after a run wrote its
\* keywords, first run or retag run, the keywords of the converted file are K
\* followed by exactly one copied-tag; and a converted file with one source
\* holds no keywords or those of its source followed by one copied-tag.
C14_NoAccumulation ==
    ctor = "ok" =>
        /\ \A i \in 1..Len(log) :
              (/\ SourceKeywords(log[i].filename) # << >>
               /\ KeywordsWritten(log[i])
               /\ SourcesOf(log[i].new_filename) = {<<log[i].path, log[i].filename>>}) =>
                  processed[log[i].new_filename].keywords = Marked(log[i].filename)
        /\ \A n \in DOMAIN processed :
              SourcesOf(n) = {processed[n].src} =>
                  processed[n].keywords \in {<< >>, Marked(processed[n].src[2])}

C14_Witness ==
    /\ ctor = "ok"
    /\ runs >= 2
    /\ self.retag
    /\ gen.pc = "done"
    /\ \E i \in 1..Len(log) :
          /\ SourceKeywords(log[i].filename) # << >>
          /\ SourcesOf(log[i].new_filename) = {<<log[i].path, log[i].filename>>}
          /\ log[i].converted_did_exist
          /\ atStart[log[i].new_filename].keywords = Marked(log[i].filename)
          /\ KeywordsWritten(log[i])

====
